---- MODULE Spec2Model ----
(***************************************************************************)
(* PassWeaver (pwv.py): the rule-driven combinatorial expansion engine and *)
(* the resumable generation session.  Strings are TLA+ strings; characters *)
(* are strings of length one.  Python's None is the empty tuple and a      *)
(* present value s is the one-element tuple <<s>>.                          *)
(***************************************************************************)
EXTENDS Integers, Sequences, FiniteSets, TLC

(***************************************************************************)
(* Characters and the str methods the program uses                         *)
(***************************************************************************)
UPPERCASE == "ABCDEFGHIJKLMNOPQRSTUVWXYZ"
LOWERCASE == "abcdefghijklmnopqrstuvwxyz"
DIGITS == "0123456789"

None == <<>>
Some(s) == <<s>>

Min(a, b) == IF a < b THEN a ELSE b

Char(s, i) == SubSeq(s, i, i)

\* position of the one-character string ch in s, 0 when absent
IndexIn(ch, s) ==
    IF \E i \in 1..Len(s) : Char(s, i) = ch
    THEN CHOOSE i \in 1..Len(s) : Char(s, i) = ch
    ELSE 0

isupper(ch) == IndexIn(ch, UPPERCASE) > 0
isdigit(ch) == IndexIn(ch, DIGITS) > 0
isalnum(ch) == IndexIn(ch, UPPERCASE) > 0 \/ IndexIn(ch, LOWERCASE) > 0 \/ isdigit(ch)

upper_ch(ch) == IF IndexIn(ch, LOWERCASE) > 0 THEN Char(UPPERCASE, IndexIn(ch, LOWERCASE)) ELSE ch
lower_ch(ch) == IF IndexIn(ch, UPPERCASE) > 0 THEN Char(LOWERCASE, IndexIn(ch, UPPERCASE)) ELSE ch

RECURSIVE upper(_)
upper(s) == IF Len(s) = 0 THEN "" ELSE upper_ch(Head(s)) \o upper(Tail(s))

RECURSIVE lower(_)
lower(s) == IF Len(s) = 0 THEN "" ELSE lower_ch(Head(s)) \o lower(Tail(s))

startswith(s, p) == Len(s) >= Len(p) /\ SubSeq(s, 1, Len(p)) = p

\* first index at which sub occurs in s, 0 when it does not occur
find(s, sub) ==
    LET hits == {i \in 1..(Len(s) - Len(sub) + 1) : SubSeq(s, i, i + Len(sub) - 1) = sub}
    IN IF hits = {} THEN 0 ELSE CHOOSE i \in hits : \A j \in hits : i <= j

contains(s, sub) == find(s, sub) > 0

\* s[k:] for k >= 0
DropStr(s, k) == IF k >= Len(s) THEN "" ELSE SubSeq(s, k + 1, Len(s))

\* s[-2:]
last_two(s) == IF Len(s) <= 2 THEN s ELSE SubSeq(s, Len(s) - 1, Len(s))

\* s.split(sep, maxsplit); maxsplit = -1 splits everywhere
RECURSIVE split_n(_, _, _)
split_n(s, sep, maxsplit) ==
    LET i == find(s, sep)
    IN IF maxsplit = 0 \/ i = 0
       THEN <<s>>
       ELSE <<SubSeq(s, 1, i - 1)>> \o split_n(DropStr(s, i + Len(sep) - 1), sep, maxsplit - 1)

split(s, sep) == split_n(s, sep, -1)

\* s.strip() for the blank character
RECURSIVE lstrip(_)
lstrip(s) == IF Len(s) > 0 /\ Head(s) = " " THEN lstrip(Tail(s)) ELSE s

RECURSIVE rstrip(_)
rstrip(s) == IF Len(s) > 0 /\ Char(s, Len(s)) = " " THEN rstrip(SubSeq(s, 1, Len(s) - 1)) ELSE s

strip(s) == rstrip(lstrip(s))

\* number of leading decimal digits of s: what \d* / \d+ consume
RECURSIVE digit_run(_)
digit_run(s) == IF Len(s) > 0 /\ isdigit(Head(s)) THEN 1 + digit_run(Tail(s)) ELSE 0

\* int(s) is defined on decimal digits with blanks around them and an
\* optional sign in front; anything else raises ValueError.  t is s without
\* the blanks around it.
int_digits(t) == IF startswith(t, "-") \/ startswith(t, "+") THEN DropStr(t, 1) ELSE t

is_int(s) == \E t \in {strip(s)} : Len(int_digits(t)) > 0 /\ digit_run(int_digits(t)) = Len(int_digits(t))

RECURSIVE int_acc(_, _)
int_acc(s, acc) == IF Len(s) = 0 THEN acc ELSE int_acc(Tail(s), 10 * acc + (IndexIn(Head(s), DIGITS) - 1))

int(s) ==
    CHOOSE n \in {IF startswith(t, "-") THEN 0 - int_acc(int_digits(t), 0) ELSE int_acc(int_digits(t), 0)
                  : t \in {strip(s)}} : TRUE

RECURSIVE str(_)
str(n) ==
    IF n < 0 THEN "-" \o str(0 - n)
    ELSE IF n < 10 THEN Char(DIGITS, n + 1)
    ELSE str(n \div 10) \o Char(DIGITS, (n % 10) + 1)

\* "".join(seq) and " ".join(seq)
RECURSIVE join(_, _)
join(sep, seq) ==
    IF Len(seq) = 0 THEN ""
    ELSE IF Len(seq) = 1 THEN seq[1]
    ELSE seq[1] \o sep \o join(sep, Tail(seq))

Range(seq) == {seq[i] : i \in 1..Len(seq)}

\* the concatenation of a list of lists, by halves
RECURSIVE Flatten(_)
Flatten(seqs) ==
    IF Len(seqs) = 0 THEN <<>>
    ELSE IF Len(seqs) = 1 THEN seqs[1]
    ELSE LET half == Len(seqs) \div 2
         IN Flatten(SubSeq(seqs, 1, half)) \o Flatten(SubSeq(seqs, half + 1, Len(seqs)))

Reverse(seq) == [i \in 1..Len(seq) |-> seq[Len(seq) + 1 - i]]

\* seq[k:] for a list
Drop(seq, k) == IF k >= Len(seq) THEN <<>> ELSE SubSeq(seq, k + 1, Len(seq))

\* the elements of seq in order of first occurrence, by halves
RECURSIVE Dedup(_)
Dedup(seq) ==
    IF Len(seq) <= 1 THEN seq
    ELSE LET half == Len(seq) \div 2
             front == Dedup(SubSeq(seq, 1, half))
             seen == Range(front)
             fresh(e) == e \notin seen
         IN front \o SelectSeq(Dedup(SubSeq(seq, half + 1, Len(seq))), fresh)

(***************************************************************************)
(* Generator helpers                                                        *)
(***************************************************************************)
leet_mapping(ch) ==
    CASE ch = "a" -> <<"a", "@">>
      [] ch = "e" -> <<"e", "3">>
      [] ch = "i" -> <<"i", "1">>
      [] ch = "o" -> <<"o", "0">>
      [] ch = "s" -> <<"s", "$", "5">>
      [] ch = "t" -> <<"t", "7">>
      [] OTHER -> None

leet_options_lower(ch) ==
    IF leet_mapping(lower_ch(ch)) = None THEN <<ch>> ELSE leet_mapping(lower_ch(ch))

leet_options(ch) ==
    LET options == IF leet_mapping(lower_ch(ch)) = None THEN <<ch>> ELSE leet_mapping(lower_ch(ch))
    IN IF isupper(ch) THEN [k \in 1..Len(options) |-> upper(options[k])] ELSE options

\* itertools.product over the per-character options: the first character
\* varies slowest
RECURSIVE generate_leet_variants(_)
generate_leet_variants(word) ==
    IF Len(word) = 0 THEN <<"">>
    ELSE LET rest == generate_leet_variants(Tail(word))
             options == leet_options(Head(word))
         IN Flatten([k \in 1..Len(options) |-> [j \in 1..Len(rest) |-> options[k] \o rest[j]]])

RECURSIVE apply_positions(_, _)
apply_positions(result, positions) ==
    IF Len(positions) = 0 THEN result
    ELSE LET pos == Head(positions)
             idx == IF pos = "L" THEN Len(result)
                    ELSE IF is_int(pos) THEN int(pos)
                    ELSE 0
             next == IF 1 <= idx /\ idx <= Len(result)
                     THEN SubSeq(result, 1, idx - 1) \o upper_ch(Char(result, idx)) \o DropStr(result, idx)
                     ELSE result
         IN apply_positions(next, Tail(positions))

apply_case_pattern_keep(case_pattern, replacement) == replacement

apply_case_pattern(case_pattern, replacement) ==
    IF ~startswith(case_pattern, "u:") THEN replacement
    ELSE LET pattern == DropStr(case_pattern, 2)
         IN IF pattern = "A" THEN upper(replacement)
            ELSE IF pattern = "N" THEN lower(replacement)
            ELSE apply_positions(lower(replacement), split(pattern, ","))

\* (day, month, full_year, short_year), each None or present
parse_date(date_str) ==
    IF Len(date_str) = 0 THEN <<None, None, None, None>>
    ELSE LET parts == split(date_str, "/")
         IN IF Len(parts) # 3 THEN <<None, None, None, None>>
            ELSE <<Some(parts[1]), Some(parts[2]), Some(parts[3]),
                   Some(last_two(parts[3]))>>

generate_numbers_from_date_raw(date_str) ==
    LET parts == split(date_str, "/")
    IN IF Len(parts) # 3 THEN <<>>
       ELSE IF ~is_int(parts[1]) \/ ~is_int(parts[2]) THEN <<>>
       ELSE LET day_str == parts[1]
                month_str == parts[2]
                year_str == strip(parts[3])
                last_two_year == last_two(year_str)
            IN << year_str,
                  last_two_year,
                  day_str \o month_str,
                  day_str \o month_str \o year_str,
                  day_str \o month_str \o last_two_year,
                  month_str \o day_str,
                  month_str \o day_str \o year_str,
                  month_str \o day_str \o last_two_year,
                  year_str \o month_str \o day_str,
                  last_two_year \o month_str \o day_str,
                  year_str \o day_str \o month_str,
                  last_two_year \o day_str \o month_str >>

generate_numbers_from_date(date_str) ==
    LET parts == split(date_str, "/")
    IN IF Len(parts) # 3 THEN <<>>
       ELSE IF ~is_int(parts[1]) \/ ~is_int(parts[2]) THEN <<>>
       ELSE LET day_str == str(int(parts[1]))
                month_str == str(int(parts[2]))
                year_str == strip(parts[3])
                last_two_year == last_two(year_str)
            IN << year_str,
                  last_two_year,
                  day_str \o month_str,
                  day_str \o month_str \o year_str,
                  day_str \o month_str \o last_two_year,
                  month_str \o day_str,
                  month_str \o day_str \o year_str,
                  month_str \o day_str \o last_two_year,
                  year_str \o month_str \o day_str,
                  last_two_year \o month_str \o day_str,
                  year_str \o day_str \o month_str,
                  last_two_year \o day_str \o month_str >>

(***************************************************************************)
(* parse_rule: a token is a record; the fields a kind does not carry are    *)
(* empty (case_pattern, value) or 0 (index)                                 *)
(***************************************************************************)
Token(type, case_pattern, index, value) ==
    [type |-> type, case_pattern |-> case_pattern, index |-> index, value |-> value]

\* re.match(r'<word>(\d*):u:', token): the digits matched, or None
match_indexed(word, token) ==
    IF ~startswith(token, word) THEN None
    ELSE LET rest == DropStr(token, Len(word))
             n == digit_run(rest)
         IN IF startswith(DropStr(rest, n), ":u:") THEN Some(SubSeq(rest, 1, n)) ELSE None

parse_indexed(word, token) ==
    LET match == match_indexed(word, token)
    IN IF match # None
       THEN Token(word, "u:" \o split(token, ":u:")[2],
                  IF Len(match[1]) > 0 THEN int(match[1]) ELSE 1, "")
       ELSE Token(word, "u:" \o split_n(token, ":", 2)[3], 1, "")

parse_token(token) ==
    IF startswith(token, "string:") \/ startswith(token, "string_leet:")
    THEN LET token_parts == split_n(token, ":", 1)
         IN Token(token_parts[1],
                  IF Len(token_parts) > 1 /\ startswith(token_parts[2], "u:")
                  THEN token_parts[2] ELSE "u:N",
                  1, "")
    ELSE IF startswith(token, "string") /\ contains(token, ":u:") THEN parse_indexed("string", token)
    ELSE IF startswith(token, "character") /\ contains(token, ":u:") THEN parse_indexed("character", token)
    ELSE IF token \in {"day", "month", "year", "short_year", "full_date",
                       "symbol", "common_number", "number"}
    THEN Token(token, "", 0, "")
    ELSE IF startswith(token, "literal:") THEN Token("literal", "", 0, split_n(token, ":", 1)[2])
    ELSE Token("literal", "", 0, token)

parse_rule(rule_str) ==
    LET tokens == split(rule_str, " + ")
    IN [k \in 1..Len(tokens) |-> parse_token(tokens[k])]

(***************************************************************************)
(* generate_passwords_from_rule                                             *)
(***************************************************************************)
DATE_TYPES == {"day", "month", "year", "short_year", "full_date"}

\* a partial configuration: one slot per token (None while unbound) and the
\* set of lowercased input strings already used
Config(config, used_strings) == [config |-> config, used_strings |-> used_strings]

Bind(cfg, i, v, used) == Config([cfg.config EXCEPT ![i] = Some(v)], used)

base_tokens(rule) ==
    [k \in 1..Len(rule) |-> IF rule[k].type = "literal" THEN Some(rule[k].value) ELSE None]

available_strings_reuse(valid_strings, used_strings) == valid_strings

available_strings(valid_strings, used_strings) ==
    LET unused(s) == lower(s) \notin used_strings
        fresh == SelectSeq(valid_strings, unused)
    IN IF Len(fresh) > 0 THEN fresh
       ELSE IF Len(valid_strings) > 0 THEN <<valid_strings[1]>> ELSE <<>>

\* the branch over a list of values that leaves the used-set alone
BindEach(cfg, i, values) == [k \in 1..Len(values) |-> Bind(cfg, i, values[k], cfg.used_strings)]

\* the component of the current date when it is present and non-empty
BindComponent(cfg, i, component) ==
    IF component # None /\ Len(component[1]) > 0
    THEN <<Bind(cfg, i, component[1], cfg.used_strings)>>
    ELSE <<>>

\* the successor configurations of one partial configuration for token i
successors(token_rule, i, cfg, env) ==
    LET token_type == token_rule.type
        avail == available_strings(env.valid_strings, cfg.used_strings)
    IN CASE token_type = "string" ->
              [k \in 1..Len(avail) |->
                  Bind(cfg, i, apply_case_pattern(token_rule.case_pattern, avail[k]),
                       cfg.used_strings \cup {lower(avail[k])})]
         [] token_type = "string_leet" ->
              Flatten([k \in 1..Len(avail) |->
                  LET variants == generate_leet_variants(apply_case_pattern(token_rule.case_pattern, avail[k]))
                  IN [j \in 1..Len(variants) |->
                         Bind(cfg, i, variants[j], cfg.used_strings \cup {lower(avail[k])})]])
         [] token_type = "character" ->
              [k \in 1..Len(avail) |->
                  Bind(cfg, i, apply_case_pattern(token_rule.case_pattern, Char(avail[k], 1)),
                       cfg.used_strings \cup {lower(avail[k])})]
         [] token_type = "day" -> BindComponent(cfg, i, env.components[1])
         [] token_type = "month" -> BindComponent(cfg, i, env.components[2])
         [] token_type = "year" -> BindComponent(cfg, i, env.components[3])
         [] token_type = "short_year" -> BindComponent(cfg, i, env.components[4])
         [] token_type = "full_date" -> BindEach(cfg, i, env.date_numbers)
         [] token_type = "symbol" -> BindEach(cfg, i, env.symbols)
         [] token_type = "common_number" -> BindEach(cfg, i, env.common_numbers)
         [] token_type = "number" -> BindEach(cfg, i, env.numbers)
         [] token_type = "literal" -> <<cfg>>
         [] OTHER -> <<>>

\* the token loop: when no configuration at all has a successor for a
\* non-literal token, the last configuration visited is carried forward
RECURSIVE expand_tokens(_, _, _, _)
expand_tokens(rule, i, configs, env) ==
    IF i > Len(rule) THEN configs
    ELSE LET new_configs == Flatten([k \in 1..Len(configs) |-> successors(rule[i], i, configs[k], env)])
             carried == IF Len(new_configs) = 0 /\ rule[i].type # "literal"
                        THEN Append(new_configs, configs[Len(configs)])
                        ELSE new_configs
         IN expand_tokens(rule, i + 1, carried, env)

filled_tokens(cfg) == [k \in 1..Len(cfg.config) |-> IF cfg.config[k] # None THEN cfg.config[k][1] ELSE ""]

\* the renders of the final configurations, the empty ones dropped
render_all(configs, sep) ==
    LET nonempty(p) == Len(p) > 0
    IN SelectSeq([k \in 1..Len(configs) |-> join(sep, filled_tokens(configs[k]))], nonempty)

date_info(d) == [components |-> parse_date(d), numbers |-> generate_numbers_from_date(d)]

Env(strings, numbers, symbols, common_numbers, info) ==
    LET nonempty(s) == Len(s) > 0
    IN [valid_strings |-> SelectSeq(strings, nonempty), numbers |-> numbers,
        symbols |-> symbols, common_numbers |-> common_numbers,
        components |-> info.components, date_numbers |-> info.numbers]

passwords_added_first(rule, strings, numbers, date_info_list, symbols, common_numbers, has_spaces) ==
    LET has_date_components == \E k \in 1..Len(rule) : rule[k].type \in DATE_TYPES
        start == <<Config(base_tokens(rule), {})>>
    IN IF has_date_components
       THEN Flatten([d \in 1..Min(1, Len(date_info_list)) |->
                render_all(expand_tokens(rule, 1, start,
                               Env(strings, numbers, symbols, common_numbers, date_info_list[d])),
                           IF has_spaces THEN " " ELSE "")])
       ELSE render_all(expand_tokens(rule, 1, start,
                           Env(strings, numbers, symbols, common_numbers,
                               [components |-> <<None, None, None, None>>, numbers |-> <<>>])),
                       "")

\* the candidates in the order they are added to all_passwords
passwords_added(rule, strings, numbers, date_info_list, symbols, common_numbers, has_spaces) ==
    LET has_date_components == \E k \in 1..Len(rule) : rule[k].type \in DATE_TYPES
        start == <<Config(base_tokens(rule), {})>>
    IN IF has_date_components
       THEN Flatten([d \in 1..Len(date_info_list) |->
                render_all(expand_tokens(rule, 1, start,
                               Env(strings, numbers, symbols, common_numbers, date_info_list[d])),
                           IF has_spaces THEN " " ELSE "")])
       ELSE render_all(expand_tokens(rule, 1, start,
                           Env(strings, numbers, symbols, common_numbers,
                               [components |-> <<None, None, None, None>>, numbers |-> <<>>])),
                       "")

\* the Set[str] returned
generate_passwords_from_rule(rule, strings, numbers, date_info_list, symbols, common_numbers, has_spaces) ==
    Range(passwords_added(rule, strings, numbers, date_info_list, symbols, common_numbers, has_spaces))

(***************************************************************************)
(* Generation and session logic                                             *)
(***************************************************************************)
DEFAULT_SYMBOLS == <<"@", "#", "$", "%", "!", "&", "*", "-", "_">>
DEFAULT_COMMON_NUMBERS ==
    << "1", "2", "3", "4", "5", "6", "7", "8", "9", "0",
       "123", "1234", "12345", "123456",
       "321", "4321", "54321",
       "123321", "12344321", "1234554321",
       "2020", "2021", "2022", "2023", "2024", "2025", "2026" >>

\* min_len is an int, max_len is None or <<int>>; 0 and None switch a bound off
ok(p, min_len, max_len, must_upper, must_symbol) ==
    /\ ~(min_len # 0 /\ Len(p) < min_len)
    /\ ~(max_len # None /\ max_len[1] # 0 /\ Len(p) > max_len[1])
    /\ ~(must_upper /\ ~\E k \in 1..Len(p) : isupper(Char(p, k)))
    /\ ~(must_symbol /\ ~\E k \in 1..Len(p) : ~isalnum(Char(p, k)))

\* passwords is the set in the order its iteration yields it
filter_valid_passwords(passwords, min_len, max_len, must_upper, must_symbol) ==
    LET keep(p) == ok(p, min_len, max_len, must_upper, must_symbol)
    IN SelectSeq(passwords, keep)

\* The order in which iterating the Set[str] yields its elements.  It is a
\* function of the string hashes, which CPython draws afresh for every
\* process; hash_seed stands for that draw.  Seed 0 is the order of insertion,
\* the others reverse and rotate it.
set_iteration(added, hash_seed) ==
    LET elems == Dedup(added)
        n == Len(elems)
        base == IF hash_seed % 2 = 1 THEN Reverse(elems) ELSE elems
        shift == IF n = 0 THEN 0 ELSE (hash_seed \div 2) % n
    IN [k \in 1..n |-> base[((k - 1 + shift) % n) + 1]]

\* lines 644-658: the filtered list of one rule as one process computes it
valid_passwords_of(sess, rule_str, hash_seed) ==
    LET rule == parse_rule(rule_str)
        has_spaces == contains(rule_str, " + ") /\ contains(rule_str, "literal: ")
        date_info_list == [k \in 1..Len(sess.dates) |-> date_info(sess.dates[k])]
        all_passwords == passwords_added(rule, sess.strings, sess.numbers, date_info_list,
                                         DEFAULT_SYMBOLS, DEFAULT_COMMON_NUMBERS, has_spaces)
    IN filter_valid_passwords(set_iteration(all_passwords, hash_seed),
                              sess.min_length, sess.max_length,
                              sess.must_include_uppercase, sess.must_include_symbol)

(***************************************************************************)
(* The loop of generate_to_file (lines 637-678)                             *)
(***************************************************************************)
\* line 643
while_continues(total_written, password_limit, rule_index_updated, total_rules) ==
    total_written < password_limit /\ rule_index_updated < total_rules

\* lines 660-661: on the first iteration the entries already written are
\* sliced off
resume_slice_noskip(full, first, count) == full

resume_slice(full, first, count) == IF first THEN Drop(full, count) ELSE full

\* lines 663-665: the for loop goes on while entries remain and the limit is
\* not reached
for_continues_nobreak(pos, valid_passwords, total_written, password_limit) ==
    pos < Len(valid_passwords)

for_continues(pos, valid_passwords, total_written, password_limit) ==
    pos < Len(valid_passwords) /\ total_written < password_limit

\* line 674: the rule counts as exhausted when the count reaches the length
\* of valid_passwords, which on the first iteration is the sliced list
rule_exhausted_strict(count, valid_passwords) == count > Len(valid_passwords)

rule_exhausted(count, valid_passwords) == count >= Len(valid_passwords)

(***************************************************************************)
(* Output artifact names                                                    *)
(***************************************************************************)
default_filename(total_written, session_id, next_run_index) ==
    str(total_written) \o "_passwords_" \o session_id \o "_run" \o str(next_run_index) \o ".txt"

temp_filename(session_id, next_run_index) ==
    "temp_" \o session_id \o "_run" \o str(next_run_index) \o ".txt"

\* pattern.match(fname) for (\d+)_passwords_<session_id>_run(\d+)\.txt:
\* the second group, or None.  match anchors at the start only.
pattern_match(fname, session_id) ==
    LET n1 == digit_run(fname)
        rest1 == DropStr(fname, n1)
        middle == "_passwords_" \o session_id \o "_run"
        rest2 == DropStr(rest1, Len(middle))
        n2 == digit_run(rest2)
    IN IF n1 >= 1 /\ startswith(rest1, middle) /\ n2 >= 1 /\ startswith(DropStr(rest2, n2), ".txt")
       THEN Some(SubSeq(rest2, 1, n2))
       ELSE None

Max(S) == CHOOSE m \in S : \A k \in S : k <= m

\* lines 625-634
next_run_index_count(dir, session_id) ==
    Cardinality({g \in DOMAIN dir : pattern_match(g, session_id) # None}) + 1

next_run_index_of(dir, session_id) ==
    LET existing_runs == {int(pattern_match(f, session_id)[1]) :
                             f \in {g \in DOMAIN dir : pattern_match(g, session_id) # None}}
    IN IF existing_runs # {} THEN Max(existing_runs) + 1 ELSE 1

\* os.path.splitext(name)[1] is non-empty: the last dot follows a character
\* that is not a dot
has_extension(name) ==
    \E k \in 2..Len(name) :
        /\ Char(name, k) = "."
        /\ \E j \in 1..(k - 1) : Char(name, j) # "."

\* lines 680-685
final_filename_of(custom_output_name, total_written, session_id, next_run_index) ==
    IF Len(strip(custom_output_name)) > 0
    THEN IF has_extension(strip(custom_output_name))
         THEN strip(custom_output_name)
         ELSE strip(custom_output_name) \o ".txt"
    ELSE default_filename(total_written, session_id, next_run_index)

\* the directory with file name removed / holding lines under name
Remove(dir, name) == [f \in (DOMAIN dir) \ {name} |-> dir[f]]
Put(dir, name, lines) == [f \in (DOMAIN dir) \cup {name} |-> IF f = name THEN lines ELSE dir[f]]

(***************************************************************************)
(* Bounds and the inputs the model draws from                               *)
(***************************************************************************)
MaxLimit == 3
MaxRuns == 3
MaxFileRuns == 2
MaxHashSeed == 1

SESSION_ID == "a1b2c3d4e5f6"
OTHER_SESSION_ID == "0f0f0f0f0f0f"

PasswordLimits == 0..MaxLimit
HashSeeds == 0..MaxHashSeed

\* rules.txt as read_rules returns it: empty, one rule, or three rules whose
\* filtered lists for the profile below have 3, 0 and 3 entries
RuleFiles == { <<>>, <<"string:u:1">>, <<"string:u:1", "number", "string: + number">> }

\* output names the operator may type: none, a bare name, and a name that
\* continues a default artifact name of this session
CustomNames == { "", "out", "1_passwords_" \o SESSION_ID \o "_run5.txt.bak" }

\* files of other origin that may lie in the output directory
ForeignDirs ==
    { <<>>,
      [f \in {"3_passwords_" \o OTHER_SESSION_ID \o "_run7.txt", "wordlist.txt",
              "temp_" \o OTHER_SESSION_ID \o "_run2.txt"} |-> <<"x">>] }

(***************************************************************************)
(* State                                                                    *)
(***************************************************************************)
VARIABLES
    session,      \* the stored session record
    rules,        \* the rule list read_rules returns
    output_dir,   \* OUTPUT_DIR: file name -> lines
    pc,           \* where the process stands: "idle", "while" (line 643), "for"
                  \* (line 663), "publish" (line 680), "returned" (updates not yet applied)
    run,          \* the locals of the run in progress
    hist,         \* history: one record per run whose updates were applied
    started,      \* history: number of runs started
    clean,        \* history: no run was terminated and no cursor reset happened
    ex            \* the inputs and result of a single rule expansion

vars == <<session, rules, output_dir, pc, run, hist, started, clean, ex>>

\* create_session, lines 516-537
create_session(data) ==
    [session_id |-> data.session_id,
     strings |-> data.strings, dates |-> data.dates, numbers |-> data.numbers,
     min_length |-> data.min_length, max_length |-> data.max_length,
     must_include_uppercase |-> data.must_include_uppercase,
     must_include_symbol |-> data.must_include_symbol,
     current_rule_index |-> 0,
     current_rule_password_count |-> 0,
     is_completed |-> FALSE,
     last_run_files |-> <<>>,
     total_generated |-> 0]

SessionData ==
    [session_id |-> SESSION_ID,
     strings |-> <<"al", "bo", "cy">>, dates |-> <<>>, numbers |-> <<"7">>,
     min_length |-> 2, max_length |-> None,
     must_include_uppercase |-> FALSE, must_include_symbol |-> FALSE]

\* The locals of generate_to_file.  pos is the position of the for loop in
\* valid_passwords.  History kept with them: out (the lines written so far),
\* emitted (for every line written, the rule and the position in the rule's
\* filtered list it was taken from),
\* at_rule, skipped and full_len (the rule last consumed, the entries of it
\* the slice skipped, the length of its filtered list), dir_before (the
\* directory when the run began) and the cursor the run started from.
NoRun ==
    [early |-> FALSE, password_limit |-> 0, custom_output_name |-> "", hash_seed |-> 0,
     next_run_index |-> 0, temp_path |-> "", final_filename |-> "",
     total_written |-> 0, rule_index_updated |-> 0, new_current_rule_password_count |-> 0,
     valid_passwords |-> <<>>, pos |-> 0,
     out |-> <<>>, emitted |-> <<>>, at_rule |-> -1, skipped |-> 0, full_len |-> 0,
     dir_before |-> <<>>, start_index |-> 0, start_count |-> 0]

NoExpansion == [sess |-> create_session(SessionData), rule_str |-> "", hash_seed |-> 0,
                done |-> FALSE, result |-> <<>>]

Init ==
    /\ session = create_session(SessionData)
    /\ rules \in RuleFiles
    /\ output_dir \in ForeignDirs
    /\ pc = "idle"
    /\ run = NoRun
    /\ hist = <<>>
    /\ started = 0
    /\ clean = TRUE
    /\ ex = NoExpansion

(***************************************************************************)
(* generate_to_file, lines 595-704, step by step                            *)
(***************************************************************************)
\* line 606
past_last_rule_strict(sess, total_rules) == sess.current_rule_index > total_rules

past_last_rule(sess, total_rules) == sess.current_rule_index >= total_rules

\* lines 601-642: the early return for a session past the last rule;
\* otherwise the directory scan and the opening (creation or truncation) of
\* the temp file.  hash_seed is the string hashing of the process.
StartRun(password_limit, custom_output_name, hash_seed) ==
    /\ pc = "idle"
    /\ started' = started + 1
    /\ IF past_last_rule(session, Len(rules))
       THEN /\ run' = [NoRun EXCEPT !.early = TRUE,
                                    !.password_limit = password_limit,
                                    !.custom_output_name = custom_output_name,
                                    !.hash_seed = hash_seed,
                                    !.dir_before = output_dir,
                                    !.start_index = session.current_rule_index,
                                    !.start_count = session.current_rule_password_count]
            /\ pc' = "returned"
            /\ UNCHANGED output_dir
       ELSE /\ run' = [NoRun EXCEPT
                          !.password_limit = password_limit,
                          !.custom_output_name = custom_output_name,
                          !.hash_seed = hash_seed,
                          !.next_run_index = next_run_index_of(output_dir, session.session_id),
                          !.temp_path = temp_filename(session.session_id,
                                            next_run_index_of(output_dir, session.session_id)),
                          !.rule_index_updated = session.current_rule_index,
                          !.new_current_rule_password_count = session.current_rule_password_count,
                          !.dir_before = output_dir,
                          !.start_index = session.current_rule_index,
                          !.start_count = session.current_rule_password_count]
            /\ output_dir' = Put(output_dir,
                                 temp_filename(session.session_id,
                                     next_run_index_of(output_dir, session.session_id)),
                                 <<>>)
            /\ pc' = "while"
    /\ UNCHANGED <<session, rules, hist, clean, ex>>

\* a run of the session walk; the number of runs is capped
BeginRun(password_limit, custom_output_name, hash_seed) ==
    started < MaxRuns /\ StartRun(password_limit, custom_output_name, hash_seed)

\* lines 643-661: the loop is entered for the next rule, whose filtered list
\* is recomputed and, on the first iteration, sliced
NextRule ==
    /\ pc = "while"
    /\ while_continues(run.total_written, run.password_limit, run.rule_index_updated, Len(rules))
    /\ run' = [run EXCEPT
                  !.valid_passwords =
                      resume_slice(valid_passwords_of(session, rules[run.rule_index_updated + 1],
                                                      run.hash_seed),
                                   run.rule_index_updated = session.current_rule_index,
                                   session.current_rule_password_count),
                  !.pos = 0,
                  !.at_rule = run.rule_index_updated,
                  !.skipped = IF run.rule_index_updated = session.current_rule_index
                              THEN session.current_rule_password_count ELSE 0,
                  !.full_len = Len(valid_passwords_of(session, rules[run.rule_index_updated + 1],
                                                      run.hash_seed))]
    /\ pc' = "for"
    /\ UNCHANGED <<session, rules, output_dir, hist, started, clean, ex>>

\* lines 663-672: one entry is written to the temp file
WriteLine ==
    /\ pc = "for"
    /\ for_continues(run.pos, run.valid_passwords, run.total_written, run.password_limit)
    /\ output_dir' = Put(output_dir, run.temp_path,
                         Append(output_dir[run.temp_path], run.valid_passwords[run.pos + 1]))
    /\ run' = [run EXCEPT !.pos = @ + 1,
                          !.total_written = @ + 1,
                          !.new_current_rule_password_count = @ + 1,
                          !.out = Append(@, run.valid_passwords[run.pos + 1]),
                          !.emitted = Append(@, <<run.at_rule,
                                                  run.full_len - Len(run.valid_passwords)
                                                      + run.pos + 1>>)]
    /\ UNCHANGED <<session, rules, pc, hist, started, clean, ex>>

\* lines 674-678: after the for loop, on to the next rule or out of the loop
EndRule ==
    /\ pc = "for"
    /\ ~for_continues(run.pos, run.valid_passwords, run.total_written, run.password_limit)
    /\ IF rule_exhausted(run.new_current_rule_password_count, run.valid_passwords)
       THEN /\ run' = [run EXCEPT !.rule_index_updated = @ + 1,
                                  !.new_current_rule_password_count = 0]
            /\ pc' = "while"
       ELSE /\ run' = run
            /\ pc' = "publish"
    /\ UNCHANGED <<session, rules, output_dir, hist, started, clean, ex>>

\* the loop is over: by the break of line 678 or by the condition of line 643
loop_left ==
    \/ pc = "publish"
    \/ /\ pc = "while"
       /\ ~while_continues(run.total_written, run.password_limit, run.rule_index_updated, Len(rules))

\* lines 680-704: the final name, os.replace and the return
PublishEarly ==
    /\ pc \in {"while", "for", "publish"}
    /\ output_dir' = Put(Remove(output_dir, run.temp_path),
                         final_filename_of(run.custom_output_name, run.total_written,
                                           session.session_id, run.next_run_index),
                         output_dir[run.temp_path])
    /\ run' = [run EXCEPT !.final_filename =
                              final_filename_of(run.custom_output_name, run.total_written,
                                                session.session_id, run.next_run_index)]
    /\ pc' = "returned"
    /\ UNCHANGED <<session, rules, hist, started, clean, ex>>

Publish ==
    /\ loop_left
    /\ output_dir' = Put(Remove(output_dir, run.temp_path),
                         final_filename_of(run.custom_output_name, run.total_written,
                                           session.session_id, run.next_run_index),
                         output_dir[run.temp_path])
    /\ run' = [run EXCEPT !.final_filename =
                              final_filename_of(run.custom_output_name, run.total_written,
                                                session.session_id, run.next_run_index)]
    /\ pc' = "returned"
    /\ UNCHANGED <<session, rules, hist, started, clean, ex>>

\* the updates dict generate_to_file returns: line 607, lines 693-702
updates_of_strict(sess, r) ==
    IF r.early
    THEN [sess EXCEPT !.is_completed = TRUE]
    ELSE [sess EXCEPT !.current_rule_index = r.rule_index_updated,
                      !.current_rule_password_count = r.new_current_rule_password_count,
                      !.is_completed = r.rule_index_updated > Len(rules),
                      !.total_generated = sess.total_generated + r.total_written,
                      !.last_run_files = Append(sess.last_run_files, r.final_filename)]

updates_of_overwrite(sess, r) ==
    IF r.early
    THEN [sess EXCEPT !.is_completed = TRUE]
    ELSE [sess EXCEPT !.current_rule_index = r.rule_index_updated,
                      !.current_rule_password_count = r.new_current_rule_password_count,
                      !.is_completed = r.rule_index_updated >= Len(rules),
                      !.total_generated = r.total_written,
                      !.last_run_files = Append(sess.last_run_files, r.final_filename)]

updates_of(sess, r) ==
    IF r.early
    THEN [sess EXCEPT !.is_completed = TRUE]
    ELSE [sess EXCEPT !.current_rule_index = r.rule_index_updated,
                      !.current_rule_password_count = r.new_current_rule_password_count,
                      !.is_completed = r.rule_index_updated >= Len(rules),
                      !.total_generated = sess.total_generated + r.total_written,
                      !.last_run_files = Append(sess.last_run_files, r.final_filename)]

\* update_session(session_id, **updates), lines 539-552, as called at 797 and 851
UpdateSession ==
    /\ pc = "returned"
    /\ session' = updates_of(session, run)
    /\ hist' = Append(hist, [early |-> run.early, password_limit |-> run.password_limit,
                             hash_seed |-> run.hash_seed, out |-> run.out,
                             emitted |-> run.emitted,
                             total_written |-> run.total_written,
                             custom_output_name |-> run.custom_output_name,
                             start_index |-> run.start_index, start_count |-> run.start_count,
                             next_run_index |-> run.next_run_index,
                             final_filename |-> run.final_filename])
    /\ pc' = "idle"
    /\ run' = NoRun
    /\ UNCHANGED <<rules, output_dir, started, clean, ex>>

\* cli_resume, lines 831-836: the operator restarts a completed session
ResetCursor ==
    /\ pc = "idle"
    /\ session.is_completed
    /\ started < MaxRuns
    /\ session' = [session EXCEPT !.current_rule_index = 0,
                                  !.current_rule_password_count = 0,
                                  !.is_completed = FALSE]
    /\ clean' = FALSE
    /\ UNCHANGED <<rules, output_dir, pc, run, hist, started, ex>>

\* the process is terminated during a run (KeyboardInterrupt, kill)
Terminate ==
    /\ pc \in {"while", "for", "publish", "returned"}
    /\ pc' = "idle"
    /\ run' = NoRun
    /\ clean' = FALSE
    /\ UNCHANGED <<session, rules, output_dir, hist, started, ex>>

\* The session walk: runs with default output names, every run in a process
\* of its own (its own hash seed), each run carried through to update_session.
Next ==
    \/ \E password_limit \in PasswordLimits, hash_seed \in HashSeeds :
          BeginRun(password_limit, "", hash_seed)
    \/ NextRule
    \/ WriteLine
    \/ EndRule
    \/ Publish
    \/ UpdateSession
    \/ ResetCursor

Spec == Init /\ [][Next]_vars

\* The output directory: runs with default and custom output names, runs
\* terminated at any point, one ordering of the candidate sets.
NextFiles ==
    \/ \E password_limit \in PasswordLimits, custom_output_name \in CustomNames :
          started < MaxFileRuns /\ BeginRun(password_limit, custom_output_name, 0)
    \/ NextRule
    \/ WriteLine
    \/ EndRule
    \/ Publish
    \/ UpdateSession
    \/ ResetCursor
    \/ Terminate

SpecFiles == Init /\ [][NextFiles]_vars

\* The operator repeats runs with a limit of at least 1, with default output
\* names, for as long as the session is not past the last rule, and never
\* resets the cursor; a run that was started runs to its end and the next
\* one is started, which is the weak fairness of every step.
RepeatRun ==
    \E password_limit \in PasswordLimits \ {0}, hash_seed \in HashSeeds :
        ~past_last_rule(session, Len(rules)) /\ StartRun(password_limit, "", hash_seed)

NextLive ==
    \/ RepeatRun
    \/ NextRule
    \/ WriteLine
    \/ EndRule
    \/ Publish
    \/ UpdateSession

\* RepeatRun is enabled exactly when the program is idle with the session not
\* past the last rule, and NextRule exactly when the while condition of line
\* 643 holds; both leave that position of the program.  Their weak fairness
\* is stated with the enabling condition written out.
RepeatRunEnabled == pc = "idle" /\ ~past_last_rule(session, Len(rules))

NextRuleEnabled ==
    /\ pc = "while"
    /\ while_continues(run.total_written, run.password_limit, run.rule_index_updated, Len(rules))

FairRepeatRun == []<>(~RepeatRunEnabled) \/ []<><<pc = "idle" /\ pc' # "idle">>_vars

FairNextRule == []<>(~NextRuleEnabled) \/ []<><<pc = "while" /\ pc' = "for">>_vars

SpecLive ==
    /\ Init /\ [][NextLive]_vars
    /\ FairRepeatRun /\ FairNextRule
    /\ WF_vars(WriteLine) /\ WF_vars(EndRule) /\ WF_vars(Publish) /\ WF_vars(UpdateSession)

(***************************************************************************)
(* One rule expanded and filtered for one profile (lines 644-658), the      *)
(* rule text, the profile and the minimum length drawn from small sets      *)
(***************************************************************************)
ExRules ==
    { "string + common_number", "string: + common_number", "string_leet:",
      "symbol + number", "string: + year", "string:u:1 + string:",
      "character:u:A + full_date", "literal: a + string: + year",
      "literal: a + string:", "day + month + year", "number + string: + short_year",
      "string_leet: + character:u:A + string:u:L" }
ExStrings == { <<>>, <<"Anna">>, <<"Eli">>, <<"Anna", "Bo">>, <<"Bo", "", "bo", "Eli">> }
ExDates == { <<>>, <<"5/7/2003">>, <<"5/7/2003", "1/2">>, <<"5/7/2003", "1/2/1999">> }
ExNumbers == { <<>>, <<"7">> }
ExMinLengths == {0, 6, 8}

InitExpand ==
    /\ session = create_session(SessionData)
    /\ rules = <<>>
    /\ output_dir = <<>>
    /\ pc = "idle"
    /\ run = NoRun
    /\ hist = <<>>
    /\ started = 0
    /\ clean = TRUE
    /\ \E rule_str \in ExRules, strings \in ExStrings, dates \in ExDates,
          numbers \in ExNumbers, min_length \in ExMinLengths, hash_seed \in HashSeeds :
          ex = [sess |-> create_session([SessionData EXCEPT !.strings = strings,
                                                            !.dates = dates,
                                                            !.numbers = numbers,
                                                            !.min_length = min_length]),
                rule_str |-> rule_str, hash_seed |-> hash_seed,
                done |-> FALSE, result |-> <<>>]

ExpandRule ==
    /\ ~ex.done
    /\ ex' = [ex EXCEPT !.done = TRUE,
                        !.result = valid_passwords_of(ex.sess, ex.rule_str, ex.hash_seed)]
    /\ UNCHANGED <<session, rules, output_dir, pc, run, hist, started, clean>>

NextExpand == ExpandRule

SpecExpand == InitExpand /\ [][NextExpand]_vars

(***************************************************************************)
(* The helper functions, each applied to one input drawn from a small set   *)
(***************************************************************************)
DateInputs ==
    { "5/7/2003", "05/07/2003", "15/12/1999", "5/7/03", "5/7/3", "5/7/", "5/7/ 2003 ",
      " 5/7/2003", "-5/7/2003", "0/0/0", "a/7/2003", "5/b/2003", "5//2003", "//",
      "", "2003", "5/7", "1/2", "5-7-2003", "5/7/2003/1", "5/7/20/03" }

LeetWords ==
    { "", "x", "eli", "Eli", "ELI", "anna", "Anna", "pass", "Tess", "toast",
      "aeiost", "AEIOST", "S", "s$5", "bob!", "a1b2", "Zz", "@t" }

\* a Set[str] in the order its iteration yields it: no element twice
FilterInputs ==
    { <<>>,
      <<"a", "Ab", "abc", "ab!", "ABCD", "a1#B", "12345">>,
      <<"12345", "a1#B", "zz", "Zz", "z_z", "Q", "abc">> }
FilterMinLens == {0, 2, 4}
FilterMaxLens == {None, Some(0), Some(3)}

NoCall ==
    [fn |-> "", date_str |-> "", word |-> "", passwords |-> <<>>,
     min_len |-> 0, max_len |-> None, must_upper |-> FALSE, must_symbol |-> FALSE,
     done |-> FALSE, components |-> <<None, None, None, None>>, result |-> <<>>]

InitHelpers ==
    /\ session = create_session(SessionData)
    /\ rules = <<>>
    /\ output_dir = <<>>
    /\ pc = "idle"
    /\ run = NoRun
    /\ hist = <<>>
    /\ started = 0
    /\ clean = TRUE
    /\ \/ \E date_str \in DateInputs :
             ex = [NoCall EXCEPT !.fn = "generate_numbers_from_date", !.date_str = date_str]
       \/ \E word \in LeetWords :
             ex = [NoCall EXCEPT !.fn = "generate_leet_variants", !.word = word]
       \/ \E passwords \in FilterInputs, min_len \in FilterMinLens, max_len \in FilterMaxLens,
             must_upper \in BOOLEAN, must_symbol \in BOOLEAN :
             ex = [NoCall EXCEPT !.fn = "filter_valid_passwords", !.passwords = passwords,
                                 !.min_len = min_len, !.max_len = max_len,
                                 !.must_upper = must_upper, !.must_symbol = must_symbol]

\* date_info of line 620-623: parse_date and generate_numbers_from_date of one date
DeriveDate ==
    /\ ex.fn = "generate_numbers_from_date"
    /\ ~ex.done
    /\ ex' = [ex EXCEPT !.done = TRUE,
                        !.components = parse_date(ex.date_str),
                        !.result = generate_numbers_from_date(ex.date_str)]
    /\ UNCHANGED <<session, rules, output_dir, pc, run, hist, started, clean>>

LeetVariants ==
    /\ ex.fn = "generate_leet_variants"
    /\ ~ex.done
    /\ ex' = [ex EXCEPT !.done = TRUE, !.result = generate_leet_variants(ex.word)]
    /\ UNCHANGED <<session, rules, output_dir, pc, run, hist, started, clean>>

FilterValid ==
    /\ ex.fn = "filter_valid_passwords"
    /\ ~ex.done
    /\ ex' = [ex EXCEPT !.done = TRUE,
                        !.result = filter_valid_passwords(ex.passwords, ex.min_len, ex.max_len,
                                                          ex.must_upper, ex.must_symbol)]
    /\ UNCHANGED <<session, rules, output_dir, pc, run, hist, started, clean>>

NextHelpers ==
    \/ DeriveDate
    \/ LeetVariants
    \/ FilterValid

SpecHelpers == InitHelpers /\ [][NextHelpers]_vars

(***************************************************************************)
(* The loop of lines 643-678 as a function of the session: what one call    *)
(* writes and the cursor it returns                                         *)
(***************************************************************************)
loop_start(sess) ==
    [total_written |-> 0,
     rule_index_updated |-> sess.current_rule_index,
     new_current_rule_password_count |-> sess.current_rule_password_count,
     out |-> <<>>]

\* lines 663-672 for one rule: the entries the for loop writes
for_written(valid_passwords, total_written, password_limit) ==
    SubSeq(valid_passwords, 1, Min(Len(valid_passwords), password_limit - total_written))

RECURSIVE generate_loop(_, _, _, _, _)
generate_loop(sess, rule_list, password_limit, hash_seed, st) ==
    IF ~while_continues(st.total_written, password_limit, st.rule_index_updated, Len(rule_list))
    THEN st
    ELSE LET valid_passwords ==
                 resume_slice(valid_passwords_of(sess, rule_list[st.rule_index_updated + 1], hash_seed),
                              st.rule_index_updated = sess.current_rule_index,
                              sess.current_rule_password_count)
             lines == for_written(valid_passwords, st.total_written, password_limit)
             count == st.new_current_rule_password_count + Len(lines)
         IN  IF rule_exhausted(count, valid_passwords)
             THEN generate_loop(sess, rule_list, password_limit, hash_seed,
                                [total_written |-> st.total_written + Len(lines),
                                 rule_index_updated |-> st.rule_index_updated + 1,
                                 new_current_rule_password_count |-> 0,
                                 out |-> st.out \o lines])
             ELSE [total_written |-> st.total_written + Len(lines),
                   rule_index_updated |-> st.rule_index_updated,
                   new_current_rule_password_count |-> count,
                   out |-> st.out \o lines]

\* what one call of generate_to_file on sess writes
run_output(sess, password_limit, hash_seed) ==
    IF past_last_rule(sess, Len(rules)) THEN <<>>
    ELSE generate_loop(sess, rules, password_limit, hash_seed, loop_start(sess)).out

(***************************************************************************)
(* Properties                                                               *)
(***************************************************************************)
NewSession == create_session(SessionData)

\* the first two runs of a New session were applied, nothing else happened,
\* and both processes iterated the candidate sets in the same order
TwoRunsFromNew ==
    /\ clean
    /\ Len(hist) = 2
    /\ hist[1].hash_seed = hist[2].hash_seed

\* C1: a run with limit k1 on a New session, its updates applied, then a run
\* with limit k2, emit in concatenation what one run with limit k1 + k2 on a
\* New session emits, when both runs see each rule's filtered list in the
\* same order.  (What one run emits is the loop taken as a function of the
\* session; every run of the walk emits just that.)
C1_ResumptionEquivalence ==
    /\ pc = "returned" => run.out = run_output(session, run.password_limit, run.hash_seed)
    /\ TwoRunsFromNew =>
          hist[1].out \o hist[2].out =
              run_output(NewSession, hist[1].password_limit + hist[2].password_limit,
                         hist[1].hash_seed)

\* the second run resumed inside a rule and went on into a later rule
C1_Witness ==
    /\ TwoRunsFromNew
    /\ hist[2].start_count > 0
    /\ Len(hist[2].out) > 1
    /\ session.current_rule_index > hist[2].start_index + 1

\* the run returned after reaching the limit while the rule it was consuming
\* still had entries it never wrote (run.pos entries of it were written)
StoppedMidRule ==
    /\ pc = "returned"
    /\ ~run.early
    /\ run.at_rule >= 0
    /\ run.total_written = run.password_limit
    /\ run.skipped + run.pos < run.full_len

\* C2: a run that reaches the limit while its rule still has un-emitted
\* entries returns the cursor at that rule with the count of entries
\* consumed from it so far (those skipped on resume plus those written); it
\* does not advance to the next rule.
C2_MidRuleStopRecordsCursor ==
    StoppedMidRule =>
        /\ run.rule_index_updated = run.at_rule
        /\ run.new_current_rule_password_count = run.skipped + run.pos

\* C3: for a fixed rule text, profile and constraints, every process that
\* recomputes the rule's filtered list obtains the same ordered list.
C3_DeterministicOrdering ==
    \A a, b \in 1..Len(hist) : \A k \in 1..Len(rules) :
        valid_passwords_of(session, rules[k], hist[a].hash_seed)
            = valid_passwords_of(session, rules[k], hist[b].hash_seed)

SessionInvariant ==
    /\ 0 <= session.current_rule_index
    /\ session.current_rule_index <= Len(rules)
    /\ session.current_rule_password_count >= 0
    /\ session.is_completed <=> (session.current_rule_index = Len(rules))

\* C4 as stated: in every reachable session state the rule index lies in
\* 0..totalRules, the count is not negative, and is_completed holds exactly
\* when the rule index equals totalRules.
C4_SessionInvariant_AnyRules == SessionInvariant

\* C4 amended: the same, for a rule list that is not empty.
C4_SessionInvariant == Len(rules) > 0 => SessionInvariant

\* a session that completed, was reset and is in progress again
C4_Witness ==
    /\ Len(rules) > 0
    /\ ~clean
    /\ ~session.is_completed
    /\ session.current_rule_password_count > 0
    /\ \E a \in 1..Len(hist) : hist[a].start_index < Len(rules) /\ hist[a].total_written > 0

Cursor(sess) == <<sess.current_rule_index, sess.current_rule_password_count>>

\* C5: while the session is past the last rule, a run writes nothing and
\* creates, changes or removes no file, and no step changes total_generated
\* or the artifact history; the cursor stays where it is unless it is reset
\* to (0, 0) with is_completed false.
C5_CompletedRunIsEmpty ==
    [][ session.current_rule_index >= Len(rules) =>
          /\ output_dir' = output_dir
          /\ pc' \in {"idle", "returned"}
          /\ (pc' = "returned" => run'.early /\ run'.total_written = 0 /\ run'.out = <<>>)
          /\ session'.total_generated = session.total_generated
          /\ session'.last_run_files = session.last_run_files
          /\ \/ Cursor(session') = Cursor(session)
             \/ Cursor(session') = <<0, 0>> /\ ~session'.is_completed ]_vars

\* a run against a completed session of a non-empty rule list has returned
C5_Witness ==
    /\ pc = "returned"
    /\ run.early
    /\ session.is_completed
    /\ Len(rules) > 0
    /\ session.total_generated > 0

\* C6: a run emits at most password_limit candidates, and fewer only when the
\* update it returns marks the session completed.
C6_PerRunLimit ==
    /\ run.total_written <= run.password_limit
    /\ Len(run.out) = run.total_written
    /\ pc = "returned" =>
          (run.total_written < run.password_limit => updates_of(session, run).is_completed)

\* a run that wrote candidates, fewer than its limit
C6_Witness ==
    /\ pc = "returned"
    /\ ~run.early
    /\ 0 < run.total_written
    /\ run.total_written < run.password_limit

RECURSIVE SumWritten(_)
SumWritten(h) == IF Len(h) = 0 THEN 0 ELSE h[1].total_written + SumWritten(Tail(h))

\* C8: total_generated is the sum of the written counts of all applied runs,
\* cursor resets included, and no step decreases it.
C8_TotalGeneratedAccumulates ==
    /\ [](session.total_generated = SumWritten(hist))
    /\ [][session'.total_generated >= session.total_generated]_vars

\* runs before and after a cursor reset have been counted
C8_Witness ==
    /\ ~clean
    /\ Len(hist) >= 3
    /\ hist[1].total_written > 0
    /\ hist[Len(hist)].total_written > 0
    /\ hist[Len(hist)].start_index = 0

\* no cursor reset happened and every run so far, the one in progress
\* included, iterated the candidate sets in the same order
SameOrderNoReset ==
    /\ clean
    /\ \A a, b \in 1..Len(hist) : hist[a].hash_seed = hist[b].hash_seed
    /\ (pc # "idle" /\ Len(hist) > 0) => run.hash_seed = hist[1].hash_seed

\* the (rule, position) pairs of all lines written so far, run by run
EmittedSoFar == Flatten([a \in 1..Len(hist) |-> hist[a].emitted]) \o run.emitted

EmittedBefore == Flatten([a \in 1..Len(hist) |-> hist[a].emitted])

\* C17: without a cursor reset and with the same order in every run, no
\* position of a rule's filtered list is written twice, by one run or by
\* two; a run consuming its cursor rule has skipped the first
\* countWithinRule entries of the list, which are exactly the positions
\* earlier runs wrote from that rule, and every line written is the list's
\* entry at the recorded position.
C17_NoReEmission ==
    SameOrderNoReset =>
        /\ \A a, b \in 1..Len(EmittedSoFar) : a # b => EmittedSoFar[a] # EmittedSoFar[b]
        /\ \A a \in 1..Len(run.emitted) :
              run.out[a] = valid_passwords_of(session, rules[run.emitted[a][1] + 1],
                                              run.hash_seed)[run.emitted[a][2]]
        /\ (pc = "for" /\ run.at_rule = run.start_index) =>
              /\ run.full_len - Len(run.valid_passwords) = Min(run.start_count, run.full_len)
              /\ {p \in 1..run.full_len : <<run.start_index, p>> \in Range(EmittedBefore)}
                     = 1..run.start_count

\* a run resumed inside a rule an earlier run had written from, after
\* another run, and has written from it again
C17_Witness ==
    /\ SameOrderNoReset
    /\ Len(hist) = 2
    /\ pc = "for"
    /\ run.at_rule = run.start_index
    /\ run.start_count >= 1
    /\ run.pos >= 1
    /\ \E a \in 1..Len(hist[2].emitted) : hist[2].emitted[a][1] = run.start_index
    /\ Len(hist[1].emitted) > 0

(***************************************************************************)
(* Properties of the output directory, checked under SpecFiles              *)
(***************************************************************************)
Changed(f) == f \notin DOMAIN output_dir \/ output_dir'[f] # output_dir[f]

\* the loop and the with block of lines 642-678 are being executed
InRun == pc \in {"while", "for", "publish"}

Renamed == InRun /\ pc' = "returned"

\* C7: during a run only the run's temp file is created or written; a file
\* appears or changes under any other name only by the rename of the temp
\* file after the last candidate was written (the limit is reached or the
\* rules are used up), so that it then holds the whole output of the run; no
\* file is ever removed except the temp file by that rename; and the session
\* cursor changes only after the rename (or by a reset).  This holds across
\* terminations of the process at any point.
C7_AtomicPublish ==
    /\ [](InRun =>
            /\ run.temp_path \in DOMAIN output_dir
            /\ output_dir[run.temp_path] = run.out
            /\ final_filename_of(run.custom_output_name, run.total_written,
                                 session.session_id, run.next_run_index) # run.temp_path
            /\ Cursor(session) = <<run.start_index, run.start_count>>)
    /\ [][ /\ \A f \in DOMAIN output_dir' :
                Changed(f) =>
                   \/ pc' \in {"while", "for", "publish"} /\ f = run'.temp_path
                   \/ /\ Renamed
                      /\ f = run'.final_filename
                      /\ output_dir'[f] = run.out
                      /\ \/ run.total_written >= run.password_limit
                         \/ run.rule_index_updated >= Len(rules)
           /\ \A f \in DOMAIN output_dir :
                f \notin DOMAIN output_dir' => Renamed /\ f = run.temp_path
           /\ Cursor(session') # Cursor(session) =>
                \/ /\ pc = "returned"
                   /\ run.early \/ (run.final_filename \in DOMAIN output_dir
                                    /\ output_dir[run.final_filename] = run.out)
                \/ pc = "idle" /\ Cursor(session') = <<0, 0>> ]_vars

\* a run was terminated after writing part of its output: its temp file is
\* left behind, next to an artifact an earlier run published
C7_Witness ==
    /\ pc = "idle"
    /\ ~clean
    /\ session.total_generated > 0
    /\ \E f \in DOMAIN output_dir :
          /\ startswith(f, "temp_" \o SESSION_ID)
          /\ Len(output_dir[f]) > 0
          /\ \E g \in DOMAIN output_dir :
                pattern_match(g, SESSION_ID) # None /\ Len(output_dir[g]) > Len(output_dir[f])

\* run numbers a file name of this model can carry
RunNumbers == 1..(5 + MaxRuns + MaxFileRuns)

\* the run numbers of the files named exactly as a default artifact of the session
DefaultNamedRuns(dir, session_id) ==
    {n \in RunNumbers : \E c \in 0..MaxLimit : default_filename(c, session_id, n) \in DOMAIN dir}

\* the run numbers of the files whose name begins with a default artifact
\* name of the session
DefaultPrefixedRuns(dir, session_id) ==
    {n \in RunNumbers : \E c \in 0..MaxLimit : \E f \in DOMAIN dir :
        startswith(f, default_filename(c, session_id, n))}

OneAbove(S) == IF S = {} THEN 1 ELSE Max(S) + 1

DefaultNamed(r) == ~r.early /\ Len(strip(r.custom_output_name)) = 0

\* successive default-named runs have increasing run numbers, and the rename
\* of a default-named run never replaces a file that exists
DefaultRunsNeverCollide ==
    /\ [](\A a, b \in 1..Len(hist) :
            (a < b /\ DefaultNamed(hist[a]) /\ DefaultNamed(hist[b]))
                => hist[a].next_run_index < hist[b].next_run_index)
    /\ [][ (Renamed /\ DefaultNamed(run))
              => run'.final_filename \notin DOMAIN output_dir ]_vars

\* C9 as stated: the run number is one above the highest run number among
\* the session's default-named artifacts in the directory (1 when there is
\* none), whatever other files are present; successive default-named runs
\* have increasing run numbers and overwrite nothing.
C9_RunNumber_ExactNames ==
    /\ []((pc # "idle" /\ ~run.early) =>
             run.next_run_index = OneAbove(DefaultNamedRuns(run.dir_before, session.session_id)))
    /\ DefaultRunsNeverCollide

\* C9 amended: the run number is one above the highest run number among the
\* files whose name begins with a default artifact name of the session.
C9_RunNumber ==
    /\ []((pc # "idle" /\ ~run.early) =>
             run.next_run_index = OneAbove(DefaultPrefixedRuns(run.dir_before, session.session_id)))
    /\ DefaultRunsNeverCollide

\* a default-named run numbered after an earlier default-named artifact of
\* the session, with files of other origin lying in the directory
C9_Witness ==
    /\ pc = "returned"
    /\ DefaultNamed(run)
    /\ DefaultNamedRuns(run.dir_before, session.session_id) # {}
    /\ run.next_run_index = Max(DefaultNamedRuns(run.dir_before, session.session_id)) + 1
    /\ "wordlist.txt" \in DOMAIN run.dir_before
    /\ \E f \in DOMAIN run.dir_before : startswith(f, "temp_")

(***************************************************************************)
(* Properties of the expansion, checked under SpecExpand                    *)
(***************************************************************************)
\* the profile of the scenario: strings ["Anna"], no dates, no numbers,
\* minLength 6, expanded for rule_str
AnnaScenario(rule_str) ==
    /\ ex.done
    /\ ex.rule_str = rule_str
    /\ ex.sess.strings = <<"Anna">>
    /\ ex.sess.dates = <<>>
    /\ ex.sess.numbers = <<>>
    /\ ex.sess.min_length = 6

\* prefix + n for every default common number n, those shorter than 6 left out
WithCommonNumbers(prefix) ==
    {prefix \o n : n \in {m \in Range(DEFAULT_COMMON_NUMBERS) : Len(prefix \o m) >= 6}}

\* C10 as stated: the rule "string + common_number" with strings ["Anna"] and
\* minLength 6 emits exactly "anna" + n for the default common numbers n with
\* a result of length at least 6.
C10_BareStringScenario ==
    AnnaScenario("string + common_number") => Range(ex.result) = WithCommonNumbers("anna")

\* C10 amended: the rule "string: + common_number" emits exactly those
\* candidates; the bare token `string` is a literal, and "string +
\* common_number" emits "string" + n for every default common number n.
C10_StringScenario ==
    /\ AnnaScenario("string: + common_number") =>
          /\ Range(ex.result) = WithCommonNumbers("anna")
          /\ Len(ex.result) = Cardinality(WithCommonNumbers("anna"))
    /\ AnnaScenario("string + common_number") => Range(ex.result) = WithCommonNumbers("string")

C10_Witness ==
    /\ AnnaScenario("string: + common_number")
    /\ {"anna123", "anna1234", "anna2024"} \subseteq Range(ex.result)
    /\ "anna1" \notin Range(ex.result)
(***************************************************************************)
(* Properties of the binder, checked under SpecExpand                       *)
(***************************************************************************)
\* a rule was expanded with no length bound and no required character
\* class, so that the result holds every candidate of the rule
Expanded == ex.done /\ ex.sess.min_length = 0

Candidates == Range(ex.result)

ExRule == parse_rule(ex.rule_str)

ExHasSpaces == contains(ex.rule_str, " + ") /\ contains(ex.rule_str, "literal: ")

\* the candidate set of a rule against the profile of ex with the dates given
CandidatesOf(rule, dates) ==
    generate_passwords_from_rule(rule, ex.sess.strings, ex.sess.numbers,
                                 [k \in 1..Len(dates) |-> date_info(dates[k])],
                                 DEFAULT_SYMBOLS, DEFAULT_COMMON_NUMBERS, ExHasSpaces)

STRING_TYPES == {"string", "string_leet", "character"}

\* the token kinds that draw on a data class of the profile
ClassTypes(class) ==
    CASE class = "dates" -> DATE_TYPES
      [] class = "numbers" -> {"number"}
      [] class = "strings" -> STRING_TYPES

ClassEmpty(class) ==
    CASE class = "dates" -> ex.sess.dates = <<>>
      [] class = "numbers" -> ex.sess.numbers = <<>>
      [] class = "strings" -> \A k \in 1..Len(ex.sess.strings) : ex.sess.strings[k] = ""

\* the rule without the tokens of a data class
Without(rule, class) ==
    LET other(token_rule) == token_rule.type \notin ClassTypes(class)
    IN SelectSeq(rule, other)

NotRejectedFor(class) ==
    (ClassEmpty(class) /\ CandidatesOf(Without(ExRule, class), ex.sess.dates) # {})
        => Candidates # {}

\* C11: when the profile has no dates (no numbers, no strings) and the
\* rule's other tokens yield candidates on their own, the full rule yields
\* candidates too; "string: + year" with a string and no dates yields some.
C11_NeverRejectedWholesale ==
    Expanded => \A class \in {"dates", "numbers", "strings"} : NotRejectedFor(class)

\* the environments the expansion of the rule runs in: one for every date of
\* the profile when the rule has a date token, one without a date otherwise
ExEnvs ==
    IF \E k \in 1..Len(ExRule) : ExRule[k].type \in DATE_TYPES
    THEN [d \in 1..Len(ex.sess.dates) |->
             Env(ex.sess.strings, ex.sess.numbers, DEFAULT_SYMBOLS, DEFAULT_COMMON_NUMBERS,
                 date_info(ex.sess.dates[d]))]
    ELSE << Env(ex.sess.strings, ex.sess.numbers, DEFAULT_SYMBOLS, DEFAULT_COMMON_NUMBERS,
                [components |-> <<None, None, None, None>>, numbers |-> <<>>]) >>

\* the partial configurations after the first j tokens of the rule
ConfigsAfter(j, env) ==
    expand_tokens(SubSeq(ExRule, 1, j), 1, <<Config(base_tokens(ExRule), {})>>, env)

\* every partial configuration for which token j has no successor is still
\* there, unmodified, after token j
CarriedForward(j, env) ==
    \A cfg \in Range(ConfigsAfter(j - 1, env)) :
        (ExRule[j].type # "literal" /\ successors(ExRule[j], j, cfg, env) = <<>>)
            => cfg \in Range(ConfigsAfter(j, env))

\* C15: a partial configuration for which a non-literal token has no
\* successor is carried forward unmodified, so all of them survive the token;
\* "symbol + number" with no numbers yields one candidate per symbol.
C15_FallbackPassThrough ==
    Expanded =>
        /\ \A e \in 1..Len(ExEnvs) : \A j \in 1..Len(ExRule) : CarriedForward(j, ExEnvs[e])
        /\ (ex.rule_str = "symbol + number" /\ ex.sess.numbers = <<>>)
              => Candidates = Range(DEFAULT_SYMBOLS)

\* the renders of the fully expanded configurations with the slots joined
\* by sep, the empty render left out
RendersJoinedBy(sep) ==
    UNION { {join(sep, filled_tokens(cfg)) : cfg \in Range(ConfigsAfter(Len(ExRule), ExEnvs[e]))}
            : e \in 1..Len(ExEnvs) } \ {""}

\* C16: the candidates of a rule whose text contains " + " and "literal: "
\* are its fully expanded configurations with the slots joined by single
\* blanks, with or without a date token in the rule; the candidates of every
\* other rule are the slots concatenated.
C16_RenderingJoin ==
    Expanded => Candidates = RendersJoinedBy(IF ExHasSpaces THEN " " ELSE "")

\* the positions of the non-empty input strings
NonEmptyInputs == {k \in 1..Len(ex.sess.strings) : ex.sess.strings[k] # ""}

\* the source strings a string, string_leet or character token tries for a
\* partial configuration: the non-empty input strings not yet used, or the
\* first non-empty input string when there is none
Tried(cfg) ==
    LET fresh == {k \in NonEmptyInputs : lower(ex.sess.strings[k]) \notin cfg.used_strings}
        first == {k \in NonEmptyInputs : \A m \in NonEmptyInputs : k <= m}
    IN {ex.sess.strings[k] : k \in IF fresh # {} THEN fresh ELSE first}

\* the slot values a token binds for source string s
SlotValues(token_rule, s) ==
    CASE token_rule.type = "string" -> {apply_case_pattern(token_rule.case_pattern, s)}
      [] token_rule.type = "string_leet" ->
            Range(generate_leet_variants(apply_case_pattern(token_rule.case_pattern, s)))
      [] token_rule.type = "character" ->
            {apply_case_pattern(token_rule.case_pattern, Char(s, 1))}

\* the successors of cfg for token j: their slot j and their used-set
Bound(j, cfg, env) ==
    {<<c.config[j], c.used_strings>> : c \in Range(successors(ExRule[j], j, cfg, env))}

StringTokens == {j \in 1..Len(ExRule) : ExRule[j].type \in STRING_TYPES}

\* C18: a string, string_leet or character token binds, for a partial
\* configuration, the values of exactly the unused non-empty input strings
\* (of the first non-empty one when all are used), and each successor's
\* used-set gains the lowercase of its source string; with at least as many
\* case-insensitively distinct input strings as such tokens, every fully
\* expanded configuration has used as many distinct strings as it has such
\* tokens.
C18_StringReuseAvoidance ==
    Expanded =>
        \A e \in 1..Len(ExEnvs) :
            /\ \A j \in StringTokens : \A cfg \in Range(ConfigsAfter(j - 1, ExEnvs[e])) :
                  Bound(j, cfg, ExEnvs[e]) =
                      UNION { {<<Some(v), cfg.used_strings \cup {lower(s)}>> : v \in SlotValues(ExRule[j], s)}
                              : s \in Tried(cfg) }
            /\ Cardinality({lower(ex.sess.strings[k]) : k \in NonEmptyInputs})
                     >= Cardinality(StringTokens)
                  => \A cfg \in Range(ConfigsAfter(Len(ExRule), ExEnvs[e])) :
                        Cardinality(cfg.used_strings) = Cardinality(StringTokens)

\* a rule of three such tokens expanded against two distinct strings, one of
\* them given twice: the third token falls back to the first string
C18_Witness ==
    /\ Expanded
    /\ ex.rule_str = "string_leet: + character:u:A + string:u:L"
    /\ ex.sess.strings = <<"Bo", "", "bo", "Eli">>
    /\ "b0EbO" \in Candidates
    /\ "3l1BbO" \in Candidates
    /\ "boBbO" \notin Candidates

HasDateToken == \E k \in 1..Len(ExRule) : ExRule[k].type \in DATE_TYPES

\* C19: the candidate set of a rule with a date token is the union, over the
\* dates of the profile, of its candidate set for that date alone, so that
\* "day + month + year" never mixes two dates; the candidate set of a rule
\* without a date token is the same for every list of dates.
C19_DateIndependence ==
    Expanded =>
        /\ HasDateToken =>
              Candidates = UNION {CandidatesOf(ExRule, <<ex.sess.dates[d]>>) : d \in 1..Len(ex.sess.dates)}
        /\ ~HasDateToken => \A dates \in ExDates : Candidates = CandidatesOf(ExRule, dates)
        /\ (ex.rule_str = "day + month + year" /\ ex.sess.dates = <<"5/7/2003", "1/2/1999">>)
              => Candidates = {"572003", "121999"}

\* a rule with date tokens and a string token expanded against two dates
C19_Witness ==
    /\ Expanded
    /\ ex.rule_str = "number + string: + short_year"
    /\ ex.sess.dates = <<"5/7/2003", "1/2/1999">>
    /\ ex.sess.strings = <<"Anna", "Bo">>
    /\ ex.sess.numbers = <<"7">>
    /\ Candidates = {"7anna03", "7bo03", "7anna99", "7bo99"}

(***************************************************************************)
(* Properties of the helper functions, checked under SpecHelpers            *)
(***************************************************************************)
DateDerived == ex.fn = "generate_numbers_from_date" /\ ex.done

ThreeParts(date_str) == Len(split(date_str, "/")) = 3

\* the twelve derived strings in the documented order
DerivedInOrder(day, month, year, shortYear) ==
    << year, shortYear,
       day \o month, day \o month \o year, day \o month \o shortYear,
       month \o day, month \o day \o year, month \o day \o shortYear,
       year \o month \o day, shortYear \o month \o day,
       year \o day \o month, shortYear \o day \o month >>

\* day, month and year as the derived strings use them: day and month as
\* integers written back in decimal, the year without the blanks around it
Normalized(part) == str(int(part))

DerivedOf(date_str) ==
    LET parts == split(date_str, "/")
    IN DerivedInOrder(Normalized(parts[1]), Normalized(parts[2]), strip(parts[3]),
                      last_two(strip(parts[3])))

\* C12 as stated: exactly 12 strings in the fixed order for every input of
\* exactly three /-separated parts, the empty list for every other input.
C12_TwelveForThreeParts ==
    DateDerived =>
        IF ThreeParts(ex.date_str)
        THEN /\ Len(ex.result) = 12
             /\ (is_int(split(ex.date_str, "/")[1]) /\ is_int(split(ex.date_str, "/")[2]))
                    => ex.result = DerivedOf(ex.date_str)
        ELSE ex.result = <<>>

\* C12 amended: exactly 12 strings in the fixed order for every input of
\* exactly three /-separated parts whose day and month parts read as
\* integers, the empty list for every other input; "5/7/2003" has the
\* components "5", "7", "2003", "03" and its list begins "2003", "03".
C12_DerivedNumbers ==
    /\ DateDerived =>
          IF /\ ThreeParts(ex.date_str)
             /\ is_int(split(ex.date_str, "/")[1])
             /\ is_int(split(ex.date_str, "/")[2])
          THEN /\ Len(ex.result) = 12
               /\ ex.result = DerivedOf(ex.date_str)
          ELSE ex.result = <<>>
    /\ (DateDerived /\ ex.date_str = "5/7/2003") =>
          /\ ex.components = <<Some("5"), Some("7"), Some("2003"), Some("03")>>
          /\ SubSeq(ex.result, 1, 2) = <<"2003", "03">>
    /\ (DateDerived /\ ex.date_str = "05/07/2003") =>
          ex.result = <<"2003", "03", "57", "572003", "5703", "75", "752003", "7503",
                        "200375", "0375", "200357", "0357">>

\* a date with leading zeros was derived
C12_Witness ==
    /\ DateDerived
    /\ ex.date_str = "05/07/2003"
    /\ Len(ex.result) = 12
    /\ ex.result[3] = "57"
LeetDone == ex.fn = "generate_leet_variants" /\ ex.done

\* the substitution-option count of a character, looked up case-insensitively
OptionCount(ch) ==
    IF lower_ch(ch) \in {"a", "e", "i", "o", "t"} THEN 2
    ELSE IF lower_ch(ch) = "s" THEN 3
    ELSE 1

RECURSIVE OptionProduct(_)
OptionProduct(w) == IF Len(w) = 0 THEN 1 ELSE OptionCount(Head(w)) * OptionProduct(Tail(w))

isletter(ch) == IndexIn(ch, UPPERCASE) > 0 \/ IndexIn(ch, LOWERCASE) > 0

\* C13: the variants of a word are pairwise distinct, their number is the
\* product of the characters' option counts, every variant has the length of
\* the word, and where the word has an uppercase letter the variant has an
\* uppercase letter or a digit or symbol; "eli" has the variants eli, 3li,
\* el1, 3l1.
C13_LeetVariants ==
    /\ LeetDone =>
          /\ Cardinality(Range(ex.result)) = Len(ex.result)
          /\ Len(ex.result) = OptionProduct(ex.word)
          /\ \A k \in 1..Len(ex.result) :
                /\ Len(ex.result[k]) = Len(ex.word)
                /\ \A c \in 1..Len(ex.word) :
                      isupper(Char(ex.word, c)) =>
                          isupper(Char(ex.result[k], c)) \/ ~isletter(Char(ex.result[k], c))
    /\ (LeetDone /\ ex.word = "eli") => Range(ex.result) = {"eli", "3li", "el1", "3l1"}

\* a capitalised word with substitutable letters was expanded
C13_Witness ==
    /\ LeetDone
    /\ ex.word = "Tess"
    /\ Len(ex.result) = 36
    /\ "T3$5" \in Range(ex.result)
    /\ "7ess" \in Range(ex.result)
FilterDone == ex.fn = "filter_valid_passwords" /\ ex.done

\* the conditions of the filter that are active for the call, on candidate p
Admissible(p) ==
    /\ Len(p) >= ex.min_len
    /\ ex.max_len # None => Len(p) <= ex.max_len[1]
    /\ ex.must_upper => \E c \in 1..Len(p) : isupper(Char(p, c))
    /\ ex.must_symbol => \E c \in 1..Len(p) : ~isalnum(Char(p, c))

\* C14: no candidate returned is shorter than min_len, longer than a max_len
\* that is set, without an uppercase letter when must_upper, or purely
\* alphanumeric when must_symbol; the candidates returned are the input's
\* candidates that satisfy the active conditions, once each, in input order.
C14_FilterValid ==
    FilterDone =>
        /\ \A k \in 1..Len(ex.result) : Admissible(ex.result[k])
        /\ ex.result = SelectSeq(ex.passwords, Admissible)
(***************************************************************************)
(* Progress, checked under SpecLive                                         *)
(***************************************************************************)
LexLess(a, b) == a[1] < b[1] \/ (a[1] = b[1] /\ a[2] < b[2])

PastLastRule == session.current_rule_index >= Len(rules)

\* C20: the update of a run with a limit of at least 1 on a session that is
\* not past the last rule moves the cursor strictly forward in
\* lexicographic order, and repeating such runs the session eventually is
\* past the last rule, marked completed once there are rules at all.
C20_ProgressToCompletion ==
    /\ [][ (pc = "returned" /\ pc' = "idle" /\ run.password_limit >= 1 /\ ~PastLastRule)
              => LexLess(Cursor(session), Cursor(session')) ]_vars
    /\ <>[](PastLastRule /\ pc = "idle" /\ (Len(rules) > 0 => session.is_completed))

\* the session was completed by a fourth run, the earlier ones having
\* stopped inside a rule and moved past an empty one
C20_Witness ==
    /\ PastLastRule
    /\ session.is_completed
    /\ Len(rules) = 3
    /\ Len(hist) >= 4
    /\ \E a \in 1..Len(hist) : hist[a].start_count > 0
====
